---- MODULE Spec2Model ----
(***************************************************************************)
(* The autolink and character-reference recognizers of markdown-rs         *)
(* (src/construct/autolink.rs, src/construct/character_reference.rs) as a  *)
(* state machine: one action per state function, driven by the tokenizer's *)
(* trampoline over the returned State (Next, Retry, Ok, Nok).              *)
(***************************************************************************)
EXTENDS Integers, Sequences, FiniteSets, TLC

VARIABLES
    bytes,       \* parse_state.bytes: the source buffer
    index,       \* tokenizer.point.index: offset of the byte under the cursor
    events,      \* tokenizer.events: the event log
    size,        \* tokenizer.tokenize_state.size
    marker,      \* tokenizer.tokenize_state.marker
    state,       \* the StateName to call next, or the terminal State returned
    ret,         \* the state function that ran last and the State variant it returned
    constructs,  \* parse_state.constructs: the construct toggles
    checkpoint,  \* cursor and event-log length recorded before the attempt
    result,      \* the attempt's outcome once the engine has handled it
    steps        \* how many state functions the trampoline has called in the attempt

vars ==
    <<bytes, index, events, size, marker, state, ret, constructs, checkpoint, result,
      steps>>

----------------------------------------------------------------------------
(* Bytes *)

\* The byte literals the two recognizers match on, and the representatives of
\* the byte classes used to build inputs.
B ==
    [ nul |-> 0, us |-> 31, space |-> 32, bang |-> 33, hash |-> 35,
      amp |-> 38, plus |-> 43, dash |-> 45, dot |-> 46, one |-> 49,
      colon |-> 58, semi |-> 59, lt |-> 60, gt |-> 62, at |-> 64,
      A |-> 65, F |-> 70, M |-> 77, P |-> 80, X |-> 88,
      a |-> 97, b |-> 98, f |-> 102, m |-> 109, o |-> 111, p |-> 112,
      x |-> 120, del |-> 127, utf |-> 195 ]

\* tokenizer.current at end of input (Option::None).
None == -1

\* b'0'..=b'9'
IsDigit(c) == c \in 48..57

\* b'A'..=b'Z' | b'a'..=b'z'
IsAlpha(c) == c \in 65..90 \/ c \in 97..122

\* b'0'..=b'9' | b'A'..=b'Z' | b'a'..=b'z'
IsAlnum(c) == IsDigit(c) \/ IsAlpha(c)

\* u8::is_ascii_hexdigit
IsHexDigit(c) == IsDigit(c) \/ c \in 65..70 \/ c \in 97..102

\* b'+' | b'-' | b'.' | b'0'..=b'9' | b'A'..=b'Z' | b'a'..=b'z'
IsSchemeByte(c) == c \in {43, 45, 46} \/ IsAlnum(c)

\* b'#'..=b'\'' | b'*' | b'+' | b'-'..=b'9' | b'=' | b'?' | b'A'..=b'Z' | b'^'..=b'~'
IsAtext(c) ==
    \/ c \in 35..39
    \/ c \in {42, 43}
    \/ c \in 45..57
    \/ c \in {61, 63}
    \/ c \in 65..90
    \/ c \in 94..126

\* Mutant of IsUrlStop: 0x7F is not among the control bytes.
IsUrlStop_without_del(c) == c = None \/ c \in 0..31 \/ c \in {32, 60}

\* None | b'\0'..=0x1F | b' ' | b'<' | 0x7F
IsUrlStop(c) == c = None \/ c \in 0..31 \/ c \in {32, 60, 127}

\* b'-' | b'0'..=b'9' | b'A'..=b'Z' | b'a'..=b'z'
IsLabelByte(c) == c = 45 \/ IsAlnum(c)

----------------------------------------------------------------------------
(* Constants of crate::constant *)

AUTOLINK_SCHEME_SIZE_MAX == 31

AUTOLINK_DOMAIN_SIZE_MAX == 63

CHARACTER_REFERENCE_NAMED_SIZE_MAX == 31

CHARACTER_REFERENCE_HEXADECIMAL_SIZE_MAX == 6

CHARACTER_REFERENCE_DECIMAL_SIZE_MAX == 7

\* The names of the named-entity table that the inputs can spell.
CHARACTER_REFERENCES == { <<B.a, B.m, B.p>>, <<B.A, B.M, B.P>> }

----------------------------------------------------------------------------
(* Tokenizer primitives *)

\* tokenizer.current
current == IF index < Len(bytes) THEN bytes[index + 1] ELSE None

Event(kind, token_type, at) == [kind |-> kind, token_type |-> token_type, index |-> at]

\* tokenizer.enter(token_type) at offset `at`
enter(log, token_type, at) == Append(log, Event("Enter", token_type, at))

\* tokenizer.exit(token_type) at offset `at`
exit(log, token_type, at) == Append(log, Event("Exit", token_type, at))

\* tokenizer.consume(): the cursor after one more byte
consume(at) == at + 1

\* bytes[from..to) as Slice::from_indices gives it (offsets are 0-based)
Slice(from, to) == [i \in 1..(to - from) |-> bytes[from + i]]

\* A state function `fn` returns State::Next(name), State::Retry(name),
\* State::Ok or State::Nok, or panics; the trampoline calls `name` next.
Return(fn, tag, name) ==
    /\ state' = name
    /\ ret' = [fn |-> fn, tag |-> tag]
    /\ steps' = steps + 1

----------------------------------------------------------------------------
(* construct/autolink.rs *)

\* Mutant of autolink_start: the protocol token is entered before the marker
\* byte is consumed.
autolink_start_early_protocol ==
    /\ state = "AutolinkStart"
    /\ IF current = B.lt /\ constructs.autolink
       THEN LET e1 == enter(events, "Autolink", index)
                e2 == enter(e1, "AutolinkMarker", index)
                e3 == enter(e2, "AutolinkProtocol", index)
                i1 == consume(index)
                e4 == exit(e3, "AutolinkMarker", i1)
            IN  /\ events' = e4
                /\ index' = i1
                /\ Return("autolink_start", "Next", "AutolinkOpen")
       ELSE /\ Return("autolink_start", "Nok", "Nok")
            /\ UNCHANGED <<events, index>>
    /\ UNCHANGED <<bytes, size, marker, constructs, checkpoint, result>>

\* start: at `<`, with the construct enabled, open the autolink, its marker
\* and the provisional protocol token.
autolink_start ==
    /\ state = "AutolinkStart"
    /\ IF current = B.lt /\ constructs.autolink
       THEN LET e1 == enter(events, "Autolink", index)
                e2 == enter(e1, "AutolinkMarker", index)
                i1 == consume(index)
                e3 == exit(e2, "AutolinkMarker", i1)
                e4 == enter(e3, "AutolinkProtocol", i1)
            IN  /\ events' = e4
                /\ index' = i1
                /\ Return("autolink_start", "Next", "AutolinkOpen")
       ELSE /\ Return("autolink_start", "Nok", "Nok")
            /\ UNCHANGED <<events, index>>
    /\ UNCHANGED <<bytes, size, marker, constructs, checkpoint, result>>

\* open: after `<`, before the protocol.
autolink_open ==
    /\ state = "AutolinkOpen"
    /\ IF IsAlpha(current)
       THEN /\ index' = consume(index)
            /\ Return("autolink_open", "Next", "AutolinkSchemeOrEmailAtext")
       ELSE /\ Return("autolink_open", "Retry", "AutolinkEmailAtext")
            /\ UNCHANGED index
    /\ UNCHANGED <<bytes, events, size, marker, constructs, checkpoint, result>>

\* scheme_or_email_atext: after the first byte of the protocol or email name.
scheme_or_email_atext ==
    /\ state = "AutolinkSchemeOrEmailAtext"
    /\ IF IsSchemeByte(current)
       THEN /\ size' = 1
            /\ Return("scheme_or_email_atext", "Retry", "AutolinkSchemeInsideOrEmailAtext")
       ELSE /\ Return("scheme_or_email_atext", "Retry", "AutolinkEmailAtext")
            /\ UNCHANGED size
    /\ UNCHANGED <<bytes, index, events, marker, constructs, checkpoint, result>>

\* scheme_inside_or_email_atext: inside an ambiguous protocol or email name.
scheme_inside_or_email_atext ==
    /\ state = "AutolinkSchemeInsideOrEmailAtext"
    /\ CASE current = B.colon ->
              /\ index' = consume(index)
              /\ size' = 0
              /\ Return("scheme_inside_or_email_atext", "Next", "AutolinkUrlInside")
         [] current # B.colon /\ IsSchemeByte(current)
                              /\ size < AUTOLINK_SCHEME_SIZE_MAX ->
              /\ size' = size + 1
              /\ index' = consume(index)
              /\ Return("scheme_inside_or_email_atext", "Next", "AutolinkSchemeInsideOrEmailAtext")
         [] OTHER ->
              /\ size' = 0
              /\ Return("scheme_inside_or_email_atext", "Retry", "AutolinkEmailAtext")
              /\ UNCHANGED index
    /\ UNCHANGED <<bytes, events, marker, constructs, checkpoint, result>>

\* url_inside: inside a URL, after the protocol.
url_inside ==
    /\ state = "AutolinkUrlInside"
    /\ CASE current = B.gt ->
              LET e1 == exit(events, "AutolinkProtocol", index)
                  e2 == enter(e1, "AutolinkMarker", index)
                  i1 == consume(index)
                  e3 == exit(e2, "AutolinkMarker", i1)
                  e4 == exit(e3, "Autolink", i1)
              IN  /\ events' = e4
                  /\ index' = i1
                  /\ Return("url_inside", "Ok", "Ok")
         [] current # B.gt /\ IsUrlStop(current) ->
              /\ Return("url_inside", "Nok", "Nok")
              /\ UNCHANGED <<events, index>>
         [] OTHER ->
              /\ index' = consume(index)
              /\ Return("url_inside", "Next", "AutolinkUrlInside")
              /\ UNCHANGED events
    /\ UNCHANGED <<bytes, size, marker, constructs, checkpoint, result>>

\* email_atext: inside email atext.
email_atext ==
    /\ state = "AutolinkEmailAtext"
    /\ CASE current = B.at ->
              /\ index' = consume(index)
              /\ Return("email_atext", "Next", "AutolinkEmailAtSignOrDot")
         [] current # B.at /\ IsAtext(current) ->
              /\ index' = consume(index)
              /\ Return("email_atext", "Next", "AutolinkEmailAtext")
         [] OTHER ->
              /\ Return("email_atext", "Nok", "Nok")
              /\ UNCHANGED index
    /\ UNCHANGED <<bytes, events, size, marker, constructs, checkpoint, result>>

\* Mutant of email_at_sign_or_dot: a label may start with any label byte.
email_at_sign_or_dot_any_label_byte ==
    /\ state = "AutolinkEmailAtSignOrDot"
    /\ IF IsLabelByte(current)
       THEN Return("email_at_sign_or_dot", "Retry", "AutolinkEmailValue")
       ELSE Return("email_at_sign_or_dot", "Nok", "Nok")
    /\ UNCHANGED <<bytes, index, events, size, marker, constructs, checkpoint, result>>

\* email_at_sign_or_dot: after an at-sign or a dot in the label.
email_at_sign_or_dot ==
    /\ state = "AutolinkEmailAtSignOrDot"
    /\ IF IsAlnum(current)
       THEN Return("email_at_sign_or_dot", "Retry", "AutolinkEmailValue")
       ELSE Return("email_at_sign_or_dot", "Nok", "Nok")
    /\ UNCHANGED <<bytes, index, events, size, marker, constructs, checkpoint, result>>

\* Mutant of Retag: the write lands one event too early.
Retag_shifted(log, i, token_type) == [log EXCEPT ![i].token_type = token_type]

\* tokenizer.events[i].token_type = token_type, i a Rust (0-based) index.
Retag(log, i, token_type) == [log EXCEPT ![i + 1].token_type = token_type]

\* Mutant of email_label: the index is read after the Exit has been pushed.
email_label_late_index ==
    /\ state = "AutolinkEmailLabel"
    /\ CASE current = B.dot ->
              /\ size' = 0
              /\ index' = consume(index)
              /\ Return("email_label", "Next", "AutolinkEmailAtSignOrDot")
              /\ UNCHANGED events
         [] current = B.gt ->
              LET e1 == exit(events, "AutolinkProtocol", index)
                  at == Len(e1)
              IN  /\ size' = 0
                  /\ IF at - 1 >= 0 /\ at < Len(e1)
                     THEN LET e2 == Retag(e1, at - 1, "AutolinkEmail")
                              e3 == Retag(e2, at, "AutolinkEmail")
                              e4 == enter(e3, "AutolinkMarker", index)
                              i1 == consume(index)
                              e5 == exit(e4, "AutolinkMarker", i1)
                              e6 == exit(e5, "Autolink", i1)
                          IN  /\ events' = e6
                              /\ index' = i1
                              /\ Return("email_label", "Ok", "Ok")
                     ELSE /\ events' = e1
                          /\ Return("email_label", "Panic", "Panic")
                          /\ UNCHANGED index
         [] OTHER ->
              /\ Return("email_label", "Retry", "AutolinkEmailValue")
              /\ UNCHANGED <<events, index, size>>
    /\ UNCHANGED <<bytes, marker, constructs, checkpoint, result>>

\* email_label: in the label, where `.` and `>` are allowed.  The two indexed
\* writes panic when the index is outside the log.
email_label ==
    /\ state = "AutolinkEmailLabel"
    /\ CASE current = B.dot ->
              /\ size' = 0
              /\ index' = consume(index)
              /\ Return("email_label", "Next", "AutolinkEmailAtSignOrDot")
              /\ UNCHANGED events
         [] current = B.gt ->
              LET at == Len(events)
                  e1 == exit(events, "AutolinkProtocol", index)
              IN  /\ size' = 0
                  /\ IF at - 1 >= 0 /\ at < Len(e1)
                     THEN LET e2 == Retag(e1, at - 1, "AutolinkEmail")
                              e3 == Retag(e2, at, "AutolinkEmail")
                              e4 == enter(e3, "AutolinkMarker", index)
                              i1 == consume(index)
                              e5 == exit(e4, "AutolinkMarker", i1)
                              e6 == exit(e5, "Autolink", i1)
                          IN  /\ events' = e6
                              /\ index' = i1
                              /\ Return("email_label", "Ok", "Ok")
                     ELSE /\ events' = e1
                          /\ Return("email_label", "Panic", "Panic")
                          /\ UNCHANGED index
         [] OTHER ->
              /\ Return("email_label", "Retry", "AutolinkEmailValue")
              /\ UNCHANGED <<events, index, size>>
    /\ UNCHANGED <<bytes, marker, constructs, checkpoint, result>>

\* Mutant of EmailValueNext: email_label follows every byte.
EmailValueNext_always_label(c) == "AutolinkEmailLabel"

\* The state email_value continues in: itself after `-`, email_label otherwise.
EmailValueNext(c) ==
    IF c = B.dash THEN "AutolinkEmailValue" ELSE "AutolinkEmailLabel"

\* Mutant of LabelByteFits: the cap is compared inclusively.
LabelByteFits_inclusive == IsLabelByte(current) /\ size <= AUTOLINK_DOMAIN_SIZE_MAX

\* The guard of email_value's first arm: a label byte, below the domain cap.
LabelByteFits == IsLabelByte(current) /\ size < AUTOLINK_DOMAIN_SIZE_MAX

\* email_value with size left as it is when it returns Nok.
email_value_keeps_size ==
    /\ state = "AutolinkEmailValue"
    /\ IF LabelByteFits
       THEN /\ size' = size + 1
            /\ index' = consume(index)
            /\ Return("email_value", "Next", EmailValueNext(current))
       ELSE /\ Return("email_value", "Nok", "Nok")
            /\ UNCHANGED <<index, size>>
    /\ UNCHANGED <<bytes, events, marker, constructs, checkpoint, result>>

\* email_value retrying into email_label, instead of returning Nok, at a byte
\* it does not accept.
email_value_retrying_into_label ==
    /\ state = "AutolinkEmailValue"
    /\ IF LabelByteFits
       THEN /\ size' = size + 1
            /\ index' = consume(index)
            /\ Return("email_value", "Next", EmailValueNext(current))
       ELSE /\ Return("email_value", "Retry", "AutolinkEmailLabel")
            /\ UNCHANGED <<index, size>>
    /\ UNCHANGED <<bytes, events, marker, constructs, checkpoint, result>>

\* email_value: in the label, where `.` and `>` are not allowed.
email_value ==
    /\ state = "AutolinkEmailValue"
    /\ IF LabelByteFits
       THEN /\ size' = size + 1
            /\ index' = consume(index)
            /\ Return("email_value", "Next", EmailValueNext(current))
       ELSE /\ size' = 0
            /\ Return("email_value", "Nok", "Nok")
            /\ UNCHANGED index
    /\ UNCHANGED <<bytes, events, marker, constructs, checkpoint, result>>

----------------------------------------------------------------------------
(* construct/character_reference.rs *)

\* start with the construct toggle not consulted.
character_reference_start_ignoring_toggle ==
    /\ state = "CharacterReferenceStart"
    /\ IF current = B.amp
       THEN LET e1 == enter(events, "CharacterReference", index)
                e2 == enter(e1, "CharacterReferenceMarker", index)
                i1 == consume(index)
                e3 == exit(e2, "CharacterReferenceMarker", i1)
            IN  /\ events' = e3
                /\ index' = i1
                /\ Return("character_reference_start", "Next", "CharacterReferenceOpen")
       ELSE /\ Return("character_reference_start", "Nok", "Nok")
            /\ UNCHANGED <<events, index>>
    /\ UNCHANGED <<bytes, size, marker, constructs, checkpoint, result>>

\* start: at `&`, with the construct enabled, open the reference and its marker.
character_reference_start ==
    /\ state = "CharacterReferenceStart"
    /\ IF constructs.character_reference /\ current = B.amp
       THEN LET e1 == enter(events, "CharacterReference", index)
                e2 == enter(e1, "CharacterReferenceMarker", index)
                i1 == consume(index)
                e3 == exit(e2, "CharacterReferenceMarker", i1)
            IN  /\ events' = e3
                /\ index' = i1
                /\ Return("character_reference_start", "Next", "CharacterReferenceOpen")
       ELSE /\ Return("character_reference_start", "Nok", "Nok")
            /\ UNCHANGED <<events, index>>
    /\ UNCHANGED <<bytes, size, marker, constructs, checkpoint, result>>

\* open with the first byte of a name consumed before the retry into value.
character_reference_open_consuming ==
    /\ state = "CharacterReferenceOpen"
    /\ IF current = B.hash
       THEN LET e1 == enter(events, "CharacterReferenceMarkerNumeric", index)
                i1 == consume(index)
                e2 == exit(e1, "CharacterReferenceMarkerNumeric", i1)
            IN  /\ events' = e2
                /\ index' = i1
                /\ Return("character_reference_open", "Next", "CharacterReferenceNumeric")
                /\ UNCHANGED marker
       ELSE /\ marker' = B.amp
            /\ events' = enter(events, "CharacterReferenceValue", index)
            /\ index' = consume(index)
            /\ Return("character_reference_open", "Retry", "CharacterReferenceValue")
    /\ UNCHANGED <<bytes, size, constructs, checkpoint, result>>

\* open with the marker left as it is before the retry into value.
character_reference_open_leaves_marker ==
    /\ state = "CharacterReferenceOpen"
    /\ IF current = B.hash
       THEN LET e1 == enter(events, "CharacterReferenceMarkerNumeric", index)
                i1 == consume(index)
                e2 == exit(e1, "CharacterReferenceMarkerNumeric", i1)
            IN  /\ events' = e2
                /\ index' = i1
                /\ Return("character_reference_open", "Next", "CharacterReferenceNumeric")
       ELSE /\ events' = enter(events, "CharacterReferenceValue", index)
            /\ Return("character_reference_open", "Retry", "CharacterReferenceValue")
            /\ UNCHANGED index
    /\ UNCHANGED <<bytes, size, marker, constructs, checkpoint, result>>

\* open: after `&`, at `#` for numeric references or alphanumeric for named ones.
character_reference_open ==
    /\ state = "CharacterReferenceOpen"
    /\ IF current = B.hash
       THEN LET e1 == enter(events, "CharacterReferenceMarkerNumeric", index)
                i1 == consume(index)
                e2 == exit(e1, "CharacterReferenceMarkerNumeric", i1)
            IN  /\ events' = e2
                /\ index' = i1
                /\ Return("character_reference_open", "Next", "CharacterReferenceNumeric")
                /\ UNCHANGED marker
       ELSE /\ marker' = B.amp
            /\ events' = enter(events, "CharacterReferenceValue", index)
            /\ Return("character_reference_open", "Retry", "CharacterReferenceValue")
            /\ UNCHANGED index
    /\ UNCHANGED <<bytes, size, constructs, checkpoint, result>>

\* numeric with the `x` consumed without a marker token of its own.
numeric_without_hexadecimal_marker ==
    /\ state = "CharacterReferenceNumeric"
    /\ IF current \in {B.x, B.X}
       THEN LET i1 == consume(index)
            IN  /\ events' = enter(events, "CharacterReferenceValue", i1)
                /\ index' = i1
                /\ marker' = B.x
                /\ Return("numeric", "Next", "CharacterReferenceValue")
       ELSE /\ events' = enter(events, "CharacterReferenceValue", index)
            /\ marker' = B.hash
            /\ Return("numeric", "Retry", "CharacterReferenceValue")
            /\ UNCHANGED index
    /\ UNCHANGED <<bytes, size, constructs, checkpoint, result>>

\* numeric with the value entered at the `x`, before it is consumed.
numeric_value_from_marker ==
    /\ state = "CharacterReferenceNumeric"
    /\ IF current \in {B.x, B.X}
       THEN LET e1 == enter(events, "CharacterReferenceMarkerHexadecimal", index)
                i1 == consume(index)
                e2 == exit(e1, "CharacterReferenceMarkerHexadecimal", i1)
                e3 == enter(e2, "CharacterReferenceValue", index)
            IN  /\ events' = e3
                /\ index' = i1
                /\ marker' = B.x
                /\ Return("numeric", "Next", "CharacterReferenceValue")
       ELSE /\ events' = enter(events, "CharacterReferenceValue", index)
            /\ marker' = B.hash
            /\ Return("numeric", "Retry", "CharacterReferenceValue")
            /\ UNCHANGED index
    /\ UNCHANGED <<bytes, size, constructs, checkpoint, result>>

\* numeric: after `#`, at `x` for hexadecimals or digit for decimals.
numeric ==
    /\ state = "CharacterReferenceNumeric"
    /\ IF current \in {B.x, B.X}
       THEN LET e1 == enter(events, "CharacterReferenceMarkerHexadecimal", index)
                i1 == consume(index)
                e2 == exit(e1, "CharacterReferenceMarkerHexadecimal", i1)
                e3 == enter(e2, "CharacterReferenceValue", i1)
            IN  /\ events' = e3
                /\ index' = i1
                /\ marker' = B.x
                /\ Return("numeric", "Next", "CharacterReferenceValue")
       ELSE /\ events' = enter(events, "CharacterReferenceValue", index)
            /\ marker' = B.hash
            /\ Return("numeric", "Retry", "CharacterReferenceValue")
            /\ UNCHANGED index
    /\ UNCHANGED <<bytes, size, constructs, checkpoint, result>>

\* ValueMax with the cap of the hexadecimal form for the decimal form too.
ValueMax_hexadecimal_for_decimal ==
    CASE marker = B.amp  -> CHARACTER_REFERENCE_NAMED_SIZE_MAX
      [] marker = B.x    -> CHARACTER_REFERENCE_HEXADECIMAL_SIZE_MAX
      [] marker = B.hash -> CHARACTER_REFERENCE_HEXADECIMAL_SIZE_MAX

\* The cap that value selects by the marker.
ValueMax ==
    CASE marker = B.amp  -> CHARACTER_REFERENCE_NAMED_SIZE_MAX
      [] marker = B.x    -> CHARACTER_REFERENCE_HEXADECIMAL_SIZE_MAX
      [] marker = B.hash -> CHARACTER_REFERENCE_DECIMAL_SIZE_MAX

\* ValueTest with the alphanumeric class for every marker.
ValueTest_always_alphanumeric(c) == IsAlnum(c)

\* The character class that value selects by the marker.
ValueTest(c) ==
    CASE marker = B.amp  -> IsAlnum(c)
      [] marker = B.x    -> IsHexDigit(c)
      [] marker = B.hash -> IsDigit(c)

\* value with the `;` of a named reference accepted without the lookup of the
\* name in CHARACTER_REFERENCES.
value_without_lookup ==
    /\ state = "CharacterReferenceValue"
    /\ CASE current = B.semi /\ size > 0 ->
              LET e1 == exit(events, "CharacterReferenceValue", index)
                  e2 == enter(e1, "CharacterReferenceMarkerSemi", index)
                  i1 == consume(index)
                  e3 == exit(e2, "CharacterReferenceMarkerSemi", i1)
                  e4 == exit(e3, "CharacterReference", i1)
              IN  /\ events' = e4
                  /\ index' = i1
                  /\ marker' = 0
                  /\ size' = 0
                  /\ Return("value", "Ok", "Ok")
         [] ~(current = B.semi /\ size > 0)
                /\ marker \notin {B.amp, B.x, B.hash} ->
              /\ Return("value", "Panic", "Panic")
              /\ UNCHANGED <<events, index, size, marker>>
         [] OTHER ->
              IF current # None /\ size < ValueMax /\ ValueTest(current)
              THEN /\ size' = size + 1
                   /\ index' = consume(index)
                   /\ Return("value", "Next", "CharacterReferenceValue")
                   /\ UNCHANGED <<events, marker>>
              ELSE /\ marker' = 0
                   /\ size' = 0
                   /\ Return("value", "Nok", "Nok")
                   /\ UNCHANGED <<events, index>>
    /\ UNCHANGED <<bytes, constructs, checkpoint, result>>

\* value: after the markers, in the value, before `;`.  A marker other than
\* `&`, `x` or `#` reaches unreachable!(), a size above the cursor makes the
\* subtraction point.index - size underflow: both panic.
value ==
    /\ state = "CharacterReferenceValue"
    /\ CASE current = B.semi /\ size > 0 ->
              IF marker = B.amp /\ index - size < 0
              THEN /\ Return("value", "Panic", "Panic")
                   /\ UNCHANGED <<events, index, size, marker>>
              ELSE IF marker = B.amp
                      /\ Slice(index - size, index) \notin CHARACTER_REFERENCES
              THEN /\ marker' = 0
                   /\ size' = 0
                   /\ Return("value", "Nok", "Nok")
                   /\ UNCHANGED <<events, index>>
              ELSE LET e1 == exit(events, "CharacterReferenceValue", index)
                       e2 == enter(e1, "CharacterReferenceMarkerSemi", index)
                       i1 == consume(index)
                       e3 == exit(e2, "CharacterReferenceMarkerSemi", i1)
                       e4 == exit(e3, "CharacterReference", i1)
                   IN  /\ events' = e4
                       /\ index' = i1
                       /\ marker' = 0
                       /\ size' = 0
                       /\ Return("value", "Ok", "Ok")
         [] ~(current = B.semi /\ size > 0)
                /\ marker \notin {B.amp, B.x, B.hash} ->
              /\ Return("value", "Panic", "Panic")
              /\ UNCHANGED <<events, index, size, marker>>
         [] OTHER ->
              IF current # None /\ size < ValueMax /\ ValueTest(current)
              THEN /\ size' = size + 1
                   /\ index' = consume(index)
                   /\ Return("value", "Next", "CharacterReferenceValue")
                   /\ UNCHANGED <<events, marker>>
              ELSE /\ marker' = 0
                   /\ size' = 0
                   /\ Return("value", "Nok", "Nok")
                   /\ UNCHANGED <<events, index>>
    /\ UNCHANGED <<bytes, constructs, checkpoint, result>>

----------------------------------------------------------------------------
(* The engine's handling of a terminal State *)

\* attempt_done with the cursor restored on Nok and the event log left as the
\* recognizer returned it.
attempt_done_keeps_log ==
    /\ state \in {"Ok", "Nok"}
    /\ result = "Pending"
    /\ result' = state
    /\ IF state = "Nok"
       THEN index' = checkpoint.index
       ELSE UNCHANGED index
    /\ UNCHANGED <<bytes, events, size, marker, state, ret, constructs, checkpoint, steps>>

\* On Ok the cursor and the event log stand; on Nok both are restored to the
\* checkpoint taken before the attempt.
attempt_done ==
    /\ state \in {"Ok", "Nok"}
    /\ result = "Pending"
    /\ result' = state
    /\ IF state = "Nok"
       THEN /\ index' = checkpoint.index
            /\ events' = SubSeq(events, 1, checkpoint.events_len)
       ELSE UNCHANGED <<index, events>>
    /\ UNCHANGED <<bytes, size, marker, state, ret, constructs, checkpoint, steps>>

----------------------------------------------------------------------------
(* Inputs *)

\* Longest exhaustively enumerated text after the opening `<` or `&`.
MaxLen == 4

\* Bytes of earlier text before an attempt that is not at the buffer's start.
MaxStart == 1

\* How far below and above each length cap the long runs reach.
RunSlack == 2

SeqsUpTo(S, n) == UNION { [1..k -> S] : k \in 0..n }

Repeat(c, n) == [i \in 1..n |-> c]

Near(cap) == { n \in 0..(cap + RunSlack) : n >= cap - RunSlack }

AutolinkAlphabet ==
    { B.a, B.one, B.dash, B.dot, B.colon, B.at, B.gt, B.space }

ShortAutolink == { <<B.lt>> \o s : s \in SeqsUpTo(AutolinkAlphabet, MaxLen) }

\* Schemes of one repeated letter, short and around the scheme cap, before
\* the suffixes that make a URL, break its body, or turn to the email path.
SchemeTails ==
    { <<>>,
      <<B.colon, B.gt>>,
      <<B.colon, B.b, B.gt>>,
      <<B.one, B.plus, B.colon, B.b, B.gt>>,
      <<B.colon, B.b, B.utf, B.at, B.gt>>,
      <<B.colon, B.b, B.us, B.gt>>,
      <<B.colon, B.b, B.del, B.gt>>,
      <<B.colon, B.b, B.lt, B.gt>>,
      <<B.colon, B.b>>,
      <<B.hash, B.at, B.a, B.gt>>,
      <<B.at, B.a, B.gt>> }

SchemeInputs ==
    { <<B.lt>> \o Repeat(B.a, n) \o t :
        n \in 0..RunSlack \cup Near(AUTOLINK_SCHEME_SIZE_MAX), t \in SchemeTails }

\* Labels of one repeated letter, short and around the domain cap, as the
\* first label, as a later label and as the label after a label of full
\* length, before the suffixes that close the email or fail to.
LabelHeads ==
    { <<B.a, B.at>>,
      <<B.at>>,
      <<B.a, B.at, B.a, B.dot>>,
      <<B.a, B.at>> \o Repeat(B.a, AUTOLINK_DOMAIN_SIZE_MAX) \o <<B.dot>> }

LabelTails ==
    { <<>>,
      <<B.gt>>,
      <<B.dot, B.one, B.gt>>,
      <<B.dot, B.a, B.dash, B.a, B.gt>>,
      <<B.dot, B.gt>>,
      <<B.dash, B.gt>>,
      <<B.dash, B.a, B.gt>>,
      <<B.dash, B.dot, B.a, B.gt>> }

LabelInputs ==
    { <<B.lt>> \o h \o Repeat(B.a, n) \o t :
        h \in LabelHeads,
        n \in 0..RunSlack \cup Near(AUTOLINK_DOMAIN_SIZE_MAX),
        t \in LabelTails }

\* Labels filled with `-` between two letters, around the domain cap.
DashInputs ==
    { <<B.lt, B.a, B.at, B.a>> \o Repeat(B.dash, n) \o <<B.a, B.gt>> :
        n \in Near(AUTOLINK_DOMAIN_SIZE_MAX - 2) }

LongAutolink == SchemeInputs \cup LabelInputs \cup DashInputs

CharacterReferenceAlphabet == { B.hash, B.x, B.one, B.a, B.m, B.semi }

ShortCharacterReference ==
    { <<B.amp>> \o s : s \in SeqsUpTo(CharacterReferenceAlphabet, MaxLen) }

\* Values of one repeated byte around the cap of each form, and the
\* references of the casing examples.
ValueInputs(head, c, cap) ==
    { <<B.amp>> \o head \o Repeat(c, n) \o t :
        n \in 0..RunSlack \cup Near(cap),
        t \in { <<>>, <<B.semi>>, <<B.space, B.semi>> } }

\* The digits `1`, `2`, ... up to the n-th.
Digits(n) == [i \in 1..n |-> B.one + (i - 1)]

\* `&#1234567;` and `&#12345678;`: distinct digits, as many as the decimal cap
\* and one more.
DigitInputs ==
    { <<B.amp, B.hash>> \o Digits(n) \o <<B.semi>> :
        n \in { CHARACTER_REFERENCE_DECIMAL_SIZE_MAX,
                CHARACTER_REFERENCE_DECIMAL_SIZE_MAX + 1 } }

LongCharacterReference ==
    DigitInputs
    \cup ValueInputs(<<>>, B.a, CHARACTER_REFERENCE_NAMED_SIZE_MAX)
    \cup ValueInputs(<<B.hash>>, B.one, CHARACTER_REFERENCE_DECIMAL_SIZE_MAX)
    \cup ValueInputs(<<B.hash, B.x>>, B.F, CHARACTER_REFERENCE_HEXADECIMAL_SIZE_MAX)
    \cup ValueInputs(<<B.hash, B.X>>, B.f, CHARACTER_REFERENCE_HEXADECIMAL_SIZE_MAX)
    \cup { <<B.amp, B.a, B.m, B.p, B.semi>>,
           <<B.amp, B.A, B.M, B.P, B.semi>>,
           <<B.amp, B.A, B.m, B.p, B.semi>>,
           <<B.amp, B.f, B.o, B.o, B.semi>> }

\* Attempts at the end of the buffer and at a byte that opens neither
\* construct or the other one.
OtherStarts == { <<>>, <<B.b, B.gt>>, <<B.lt, B.a, B.semi>>, <<B.amp, B.a, B.gt>> }

\* The log that the text before the attempt has left: a closed Data token.
EarlierEvents(n) ==
    IF n = 0 THEN <<>>
    ELSE <<Event("Enter", "Data", 0), Event("Exit", "Data", n)>>

\* The construct toggles: every construct enabled, or every construct disabled.
Toggles == { [autolink |-> e, character_reference |-> e] : e \in BOOLEAN }

\* An attempt of one construct at the start of a buffer or after MaxStart
\* bytes of text, with the scratch record neutral and the checkpoint taken.
Init ==
    \E n \in {0, MaxStart} :
    \E first \in {"AutolinkStart", "CharacterReferenceStart"} :
    \E text \in OtherStarts \cup
                IF first = "AutolinkStart"
                THEN ShortAutolink \cup LongAutolink
                ELSE ShortCharacterReference \cup LongCharacterReference :
        /\ bytes = Repeat(B.b, n) \o text
        /\ index = n
        /\ events = EarlierEvents(n)
        /\ size = 0
        /\ marker = 0
        /\ state = first
        /\ ret = [fn |-> "none", tag |-> "Retry"]
        /\ constructs \in Toggles
        /\ checkpoint = [index |-> n, events_len |-> Len(EarlierEvents(n))]
        /\ result = "Pending"
        /\ steps = 0

Next ==
    \/ autolink_start
    \/ autolink_open
    \/ scheme_or_email_atext
    \/ scheme_inside_or_email_atext
    \/ url_inside
    \/ email_atext
    \/ email_at_sign_or_dot
    \/ email_label
    \/ email_value
    \/ character_reference_start
    \/ character_reference_open
    \/ numeric
    \/ value
    \/ attempt_done

Spec == Init /\ [][Next]_vars

\* The trampoline calls the state function named by every Next and Retry it is
\* returned, and the engine handles every Ok and Nok: a step that can be taken
\* is taken.
FairSpec == Spec /\ WF_vars(Next)

----------------------------------------------------------------------------
(* Reading the buffer and the log of one attempt *)

\* The byte at a 0-based offset of the buffer.
ByteAt(k) == bytes[k + 1]

\* The offset the attempt started at.
Start == checkpoint.index

\* The events appended since the attempt began.
AttemptEvents == SubSeq(events, checkpoint.events_len + 1, Len(events))

\* The least offset >= from holding byte c, or Len(bytes) when there is none.
FirstAt(c, from) ==
    IF \E k \in from..(Len(bytes) - 1) : ByteAt(k) = c
    THEN CHOOSE k \in from..(Len(bytes) - 1) :
            /\ ByteAt(k) = c
            /\ \A j \in from..(k - 1) : ByteAt(j) # c
    ELSE Len(bytes)

AutolinkFns ==
    { "autolink_start", "autolink_open", "scheme_or_email_atext",
      "scheme_inside_or_email_atext", "url_inside", "email_atext",
      "email_at_sign_or_dot", "email_label", "email_value" }

\* The attempt has ended in Ok through url_inside / through email_label.
UrlOk == state = "Ok" /\ ret.fn = "url_inside"

EmailOk == state = "Ok" /\ ret.fn = "email_label"

\* A state function has returned Ok or Nok.
Terminal == state \in {"Ok", "Nok"}

\* The stack of token kinds left open by a log, and whether every Exit closed
\* the most recent open Enter of its own kind.
RECURSIVE OpenAfter(_)
OpenAfter(log) ==
    IF log = <<>> THEN [ok |-> TRUE, stack |-> <<>>]
    ELSE LET before == OpenAfter(SubSeq(log, 1, Len(log) - 1))
             e == log[Len(log)]
             n == Len(before.stack)
         IN  IF e.kind = "Enter"
             THEN [ok |-> before.ok, stack |-> Append(before.stack, e.token_type)]
             ELSE IF n > 0 /\ before.stack[n] = e.token_type
             THEN [ok |-> before.ok, stack |-> SubSeq(before.stack, 1, n - 1)]
             ELSE [ok |-> FALSE, stack |-> before.stack]

\* The eight events of an autolink from offset p to the `>` at offset q, with
\* the inner token of kind `inner`.
AutolinkEvents(inner, p, q) ==
    << Event("Enter", "Autolink", p),
       Event("Enter", "AutolinkMarker", p),
       Event("Exit", "AutolinkMarker", p + 1),
       Event("Enter", inner, p + 1),
       Event("Exit", inner, q),
       Event("Enter", "AutolinkMarker", q),
       Event("Exit", "AutolinkMarker", q + 1),
       Event("Exit", "Autolink", q + 1) >>

----------------------------------------------------------------------------
(* The shape of an input, read from the buffer alone *)

\* The buffer holds `<` at Start and a `:` after it.
Colon == FirstAt(B.colon, Start + 1)

\* The bytes between `<` and the first `:`: how many, when they are a letter
\* followed by scheme bytes; -1 otherwise.
SchemeLen ==
    IF /\ Start < Len(bytes) /\ ByteAt(Start) = B.lt
       /\ Colon < Len(bytes)
       /\ \A k \in (Start + 1)..(Colon - 1) : IsSchemeByte(ByteAt(k))
       /\ Colon > Start + 1 => IsAlpha(ByteAt(Start + 1))
    THEN Colon - (Start + 1)
    ELSE -1

\* ASCII control, space or `<`.
Forbidden(c) == c \in 0..31 \/ c = 127 \/ c = 32 \/ c = 60

\* An enabled autolink attempt on `<`, a scheme, `:`, a body of allowed
\* bytes, `>`.
UrlShaped ==
    /\ constructs.autolink /\ state # "CharacterReferenceStart"
    /\ ret.fn \in AutolinkFns \cup {"none"}
    /\ SchemeLen >= 1
    /\ LET q == FirstAt(B.gt, Colon + 1)
       IN  /\ q < Len(bytes)
           /\ \A k \in (Colon + 1)..(q - 1) : ~Forbidden(ByteAt(k))

\* The `@` of an email and the `>` after it.
AtSign == FirstAt(B.at, Start + 1)

Close == FirstAt(B.gt, AtSign + 1)

\* An enabled autolink attempt on `<`, atext bytes (at least `least` of them),
\* `@`, then up to `>` nonempty labels of at most AUTOLINK_DOMAIN_SIZE_MAX
\* bytes, alphanumeric or `-`, separated by `.`.
EmailShaped(least) ==
    /\ constructs.autolink /\ state # "CharacterReferenceStart"
    /\ ret.fn \in AutolinkFns \cup {"none"}
    /\ Start < Len(bytes) /\ ByteAt(Start) = B.lt
    /\ AtSign < Len(bytes) /\ Close < Len(bytes)
    /\ AtSign - (Start + 1) >= least
    /\ \A k \in (Start + 1)..(AtSign - 1) : IsAtext(ByteAt(k))
    /\ \A k \in (AtSign + 1)..(Close - 1) :
          /\ IsLabelByte(ByteAt(k)) \/ ByteAt(k) = B.dot
          /\ ByteAt(k) = B.dot => ByteAt(k - 1) \notin {B.at, B.dot}
    /\ ByteAt(Close - 1) \notin {B.at, B.dot}
    /\ \A k \in (AtSign + 1)..(Close - 1 - AUTOLINK_DOMAIN_SIZE_MAX) :
          \E j \in k..(k + AUTOLINK_DOMAIN_SIZE_MAX) : ByteAt(j) = B.dot

\* Some label of the domain begins or ends with `-`.
EdgeDash ==
    \E k \in (AtSign + 1)..(Close - 1) :
        /\ ByteAt(k) = B.dash
        /\ ByteAt(k - 1) \in {B.at, B.dot} \/ ByteAt(k + 1) \in {B.dot, B.gt}

----------------------------------------------------------------------------
(* Claims *)

\* C1: whenever an attempt of either recognizer has ended in Ok, the events
\* it appended are stack-balanced: read in order, every Exit closes the most
\* recent unclosed Enter of the same token kind, and no Enter is left open.
C1_EventsBalanced ==
    state = "Ok" =>
        /\ OpenAfter(AttemptEvents).ok
        /\ OpenAfter(AttemptEvents).stack = <<>>

\* A hexadecimal character reference accepted: six nested or adjacent tokens.
C1_Witness ==
    /\ state = "Ok"
    /\ ret.fn = "value"
    /\ Len(AttemptEvents) = 12

\* C2, as stated: a URL-shaped input with a scheme of 32 bytes ends in Ok as a
\* URL autolink, and one with a scheme of 33 bytes does not (it ends in Nok
\* when it holds no `@`).
C2_Original ==
    (Terminal /\ UrlShaped) =>
        /\ SchemeLen = AUTOLINK_SCHEME_SIZE_MAX + 1 => UrlOk
        /\ SchemeLen = AUTOLINK_SCHEME_SIZE_MAX + 2 =>
              /\ ~UrlOk
              /\ AtSign = Len(bytes) => state = "Nok"

\* C3, as stated: a URL-shaped input whose scheme is a single letter ends in
\* Ok with an AutolinkProtocol token.
C3_Original ==
    (Terminal /\ UrlShaped /\ SchemeLen = 1) =>
        /\ UrlOk
        /\ AttemptEvents[4].token_type = "AutolinkProtocol"

\* C4, as stated: an accepted email autolink has at least one atext byte
\* between `<` and `@`, and an input with `@` directly after `<` ends in Nok.
C4_Original ==
    /\ EmailOk => AtSign > Start + 1
    /\ (Terminal /\ ret.fn \in AutolinkFns /\ constructs.autolink
          /\ Start + 1 < Len(bytes)
          /\ ByteAt(Start) = B.lt /\ ByteAt(Start + 1) = B.at)
       => state = "Nok"

\* The log as the autolink's start leaves it, up to the provisional Enter.
OpenedLog ==
    EarlierEvents(Start)
        \o SubSeq(AutolinkEvents("AutolinkProtocol", Start, Start), 1, 4)

EmailStates ==
    { "AutolinkEmailAtext", "AutolinkEmailAtSignOrDot", "AutolinkEmailLabel",
      "AutolinkEmailValue" }

\* C5: on the email path the log holds the provisional AutolinkProtocol Enter
\* as its last event until `>`; at Ok the log is the earlier events unchanged
\* followed by the eight autolink events with exactly that Enter and the Exit
\* at `>` of kind AutolinkEmail (no AutolinkProtocol event is left, nothing
\* else has changed kind, order or point); the indexed writes never fall
\* outside the log.
C5_RetagEmail ==
    /\ ret.fn = "email_label" => state # "Panic"
    /\ state \in EmailStates => events = OpenedLog
    /\ EmailOk =>
          events = EarlierEvents(Start) \o AutolinkEvents("AutolinkEmail", Start, Close)

\* An email accepted after earlier text, whose events precede it in the log.
C5_Witness ==
    /\ EmailOk
    /\ checkpoint.events_len > 0
    /\ events[Len(events) - 4].token_type = "AutolinkEmail"

\* C6: an accepted URL autolink from offset p to the `>` at offset q has
\* appended exactly the eight events Enter Autolink p, Enter AutolinkMarker p,
\* Exit AutolinkMarker p+1, Enter AutolinkProtocol p+1, Exit AutolinkProtocol
\* q, Enter AutolinkMarker q, Exit AutolinkMarker q+1, Exit Autolink q+1; the
\* cursor is at q+1 and the log holds no AutolinkEmail event.
C6_UrlEvents ==
    UrlOk =>
        LET q == FirstAt(B.gt, Start + 1)
        IN  /\ ByteAt(Start) = B.lt
            /\ q < Len(bytes)
            /\ AttemptEvents = AutolinkEvents("AutolinkProtocol", Start, q)
            /\ index = q + 1
            /\ \A i \in 1..Len(events) : events[i].token_type # "AutolinkEmail"

\* A URL with a body accepted after earlier text.
C6_Witness ==
    /\ UrlOk
    /\ Start > 0
    /\ index > Colon + 2

\* A forbidden byte or the end of input comes before the `>` of the body.
UrlBodyBroken ==
    LET q == FirstAt(B.gt, Colon + 1)
    IN  \/ q = Len(bytes)
        \/ \E k \in (Colon + 1)..(q - 1) : Forbidden(ByteAt(k))

\* C7: in an accepted URL autolink no byte of the AutolinkProtocol token's
\* span is an ASCII control byte, a space or `<`; and an attempt that has
\* reached the URL body ends in Nok exactly when such a byte or the end of
\* input comes before `>`.
C7_UrlBody ==
    /\ UrlOk =>
          \A k \in AttemptEvents[4].index..(AttemptEvents[5].index - 1) :
              ~Forbidden(ByteAt(k))
    /\ (Terminal /\ ret.fn = "url_inside") =>
          (state = "Nok" <=> UrlBodyBroken)

\* A URL accepted with `@` and a non-ASCII byte in its body.
C7_Witness ==
    /\ UrlOk
    /\ \E k \in (Colon + 1)..(index - 2) : ByteAt(k) = B.utf
    /\ \E k \in (Colon + 1)..(index - 2) : ByteAt(k) = B.at

\* The offset after the last `@` or `.` before the cursor.
LabelStart ==
    CHOOSE k \in 1..index :
        /\ ByteAt(k - 1) \in {B.at, B.dot}
        /\ \A j \in k..(index - 1) : ByteAt(j) \notin {B.at, B.dot}

\* C8: in an accepted email autolink no label of the domain has more than 63
\* bytes (every 64 consecutive bytes of the domain hold a `.`); in the domain
\* states size is the number of bytes consumed since the last `@` or `.`, so
\* every `.` restarts the count, and it never exceeds 63.
C8_LabelCap ==
    /\ EmailOk =>
          \A k \in (AtSign + 1)..(Close - 1 - AUTOLINK_DOMAIN_SIZE_MAX) :
              \E j \in k..(k + AUTOLINK_DOMAIN_SIZE_MAX) : ByteAt(j) = B.dot
    /\ state \in {"AutolinkEmailAtSignOrDot", "AutolinkEmailLabel", "AutolinkEmailValue"} =>
          /\ size = index - LabelStart
          /\ size <= AUTOLINK_DOMAIN_SIZE_MAX

\* An email accepted whose last label, after a `.`, has exactly 63 bytes.
C8_Witness ==
    /\ EmailOk
    /\ \E k \in (AtSign + 1)..(Close - 1) :
          /\ ByteAt(k) = B.dot
          /\ Close - (k + 1) = AUTOLINK_DOMAIN_SIZE_MAX
          /\ \A j \in (k + 1)..(Close - 1) : ByteAt(j) # B.dot

\* C9: an email autolink ends in Ok only with an ASCII alphanumeric directly
\* before the closing `>`; email_at_sign_or_dot runs directly after a consumed
\* `@` or `.`, and returns Nok when the byte there is `.` or `>`.
C9_CloseAfterAlnum ==
    /\ EmailOk => ByteAt(index - 1) = B.gt /\ IsAlnum(ByteAt(index - 2))
    /\ state = "AutolinkEmailAtSignOrDot" => ByteAt(index - 1) \in {B.at, B.dot}
    /\ (ret.fn = "email_at_sign_or_dot" /\ result = "Pending"
          /\ current \in {B.dot, B.gt})
       => state = "Nok"

\* A `>` directly after a `.` of the domain has ended the attempt in Nok.
C9_Witness ==
    /\ state = "Nok"
    /\ ret.fn = "email_at_sign_or_dot"
    /\ result = "Pending"
    /\ current = B.gt
    /\ ByteAt(index - 1) = B.dot

\* C10, as stated: an email-shaped input with a label that begins or ends
\* with `-`, its labels of at most 63 bytes, is accepted.
C10_Original ==
    (Terminal /\ EmailShaped(1) /\ EdgeDash) => state = "Ok"

\* C10, amended: an email-shaped input with a label that begins or ends with
\* `-` ends in Nok, and every accepted email autolink is email-shaped with no
\* such label: `-` is allowed only inside a label.
C10_EdgeDashRejected ==
    /\ (Terminal /\ EmailShaped(0) /\ EdgeDash) => state = "Nok"
    /\ EmailOk => EmailShaped(0) /\ ~EdgeDash

\* A label ending with `-` right before `>` has ended the attempt in Nok.
C10_Witness ==
    /\ state = "Nok"
    /\ ret.fn = "email_value"
    /\ result = "Pending"
    /\ EmailShaped(1)
    /\ current = B.gt
    /\ ByteAt(index - 1) = B.dash

----------------------------------------------------------------------------
(* The shape of a character reference, read from the buffer alone *)

CharacterReferenceFns ==
    { "character_reference_start", "character_reference_open", "numeric", "value" }

\* The attempt is one of the character-reference recognizer, enabled.
CharacterReferenceAttempt ==
    /\ constructs.character_reference
    /\ state = "CharacterReferenceStart" \/ ret.fn \in CharacterReferenceFns

\* The attempt has ended in Ok through value.
CharacterReferenceOk == state = "Ok" /\ ret.fn = "value"

\* The first `;` after the byte at Start.
Semi == FirstAt(B.semi, Start + 1)

\* The bytes from offset p up to, not including, offset q.
Between(p, q) == [i \in 1..(q - p) |-> ByteAt(p + i - 1)]

\* The bytes of the attempt: the buffer from Start on.
Text == Between(Start, Len(bytes))

\* `&`, 1 to CHARACTER_REFERENCE_NAMED_SIZE_MAX alphanumerics, `;`.
NamedShaped ==
    /\ Start < Len(bytes) /\ ByteAt(Start) = B.amp
    /\ Semi < Len(bytes)
    /\ Semi - (Start + 1) \in 1..CHARACTER_REFERENCE_NAMED_SIZE_MAX
    /\ \A k \in (Start + 1)..(Semi - 1) : IsAlnum(ByteAt(k))

\* The name of a named-shaped reference.
Name == Between(Start + 1, Semi)

\* The byte at an offset, None at and after the end of the buffer.
At(k) == IF k < Len(bytes) THEN ByteAt(k) ELSE None

\* `&#`, 1 to CHARACTER_REFERENCE_DECIMAL_SIZE_MAX digits, `;`.
DecimalShaped ==
    /\ At(Start) = B.amp /\ At(Start + 1) = B.hash
    /\ Semi < Len(bytes)
    /\ Semi - (Start + 2) \in 1..CHARACTER_REFERENCE_DECIMAL_SIZE_MAX
    /\ \A k \in (Start + 2)..(Semi - 1) : IsDigit(ByteAt(k))

\* `&#x` or `&#X`, 1 to CHARACTER_REFERENCE_HEXADECIMAL_SIZE_MAX hex digits, `;`.
HexadecimalShaped ==
    /\ At(Start) = B.amp /\ At(Start + 1) = B.hash
    /\ At(Start + 2) \in {B.x, B.X}
    /\ Semi < Len(bytes)
    /\ Semi - (Start + 3) \in 1..CHARACTER_REFERENCE_HEXADECIMAL_SIZE_MAX
    /\ \A k \in (Start + 3)..(Semi - 1) : IsHexDigit(ByteAt(k))

\* The tokens of one marker byte at offset p.
MarkerEvents(token_type, p) ==
    << Event("Enter", token_type, p), Event("Exit", token_type, p + 1) >>

\* The form of the reference at Start, read from the bytes after `&`.
IsNumericForm == At(Start + 1) = B.hash

IsHexadecimalForm == IsNumericForm /\ At(Start + 2) \in {B.x, B.X}

\* The offset of the first byte of the value: after `&`, `&#` or `&#x`.
ValueStart ==
    Start + 1 + (IF IsNumericForm THEN 1 ELSE 0) + (IF IsHexadecimalForm THEN 1 ELSE 0)

\* The events of a character reference at offset p whose `;` is at offset q.
CharacterReferenceEvents(p, q) ==
    << Event("Enter", "CharacterReference", p) >>
    \o MarkerEvents("CharacterReferenceMarker", p)
    \o (IF IsNumericForm
        THEN MarkerEvents("CharacterReferenceMarkerNumeric", p + 1) ELSE <<>>)
    \o (IF IsHexadecimalForm
        THEN MarkerEvents("CharacterReferenceMarkerHexadecimal", p + 2) ELSE <<>>)
    \o << Event("Enter", "CharacterReferenceValue", ValueStart),
          Event("Exit", "CharacterReferenceValue", q) >>
    \o MarkerEvents("CharacterReferenceMarkerSemi", q)
    \o << Event("Exit", "CharacterReference", q + 1) >>

----------------------------------------------------------------------------
(* Claims about character references *)

\* C11: a named character reference `&` name `;`, the name 1 to 31 ASCII
\* alphanumerics, ends in Ok if and only if the name is in
\* CHARACTER_REFERENCES byte for byte: with `amp` and `AMP` in the table and
\* `Amp` and `foo` not, `&amp;` and `&AMP;` end in Ok, `&Amp;` and `&foo;` in
\* Nok; and every reference accepted without a `#` is such a name.
C11_NamedInTable ==
    /\ (Terminal /\ CharacterReferenceAttempt /\ NamedShaped)
       => (state = "Ok" <=> Name \in CHARACTER_REFERENCES)
    /\ (Terminal /\ CharacterReferenceAttempt)
       => /\ Text \in { <<B.amp, B.a, B.m, B.p, B.semi>>,
                        <<B.amp, B.A, B.M, B.P, B.semi>> } => state = "Ok"
          /\ Text \in { <<B.amp, B.A, B.m, B.p, B.semi>>,
                        <<B.amp, B.f, B.o, B.o, B.semi>> } => state = "Nok"
    /\ (CharacterReferenceOk /\ ByteAt(Start + 1) # B.hash)
       => NamedShaped /\ Name \in CHARACTER_REFERENCES /\ index = Semi + 1

\* `&Amp;` has ended in Nok at its `;`, the three bytes of the name consumed.
C11_Witness ==
    /\ state = "Nok"
    /\ ret.fn = "value"
    /\ result = "Pending"
    /\ CharacterReferenceAttempt
    /\ NamedShaped
    /\ Name = <<B.A, B.m, B.p>>
    /\ index = Semi

\* C12: an attempt on `&#` ends in Ok if and only if the input is `&#`, 1 to
\* 7 digits, `;`, or `&#x` / `&#X`, 1 to 6 hex digits of either case, `;`: an
\* empty value, 8 digits, 7 hex digits, a byte outside the class and the end
\* of input before `;` all end in Nok.
C12_Numeric ==
    (Terminal /\ CharacterReferenceAttempt
        /\ At(Start) = B.amp /\ At(Start + 1) = B.hash)
    => (state = "Ok" <=> DecimalShaped \/ HexadecimalShaped)

\* A seventh hex digit after `&#x` has ended the attempt in Nok.
C12_Witness ==
    /\ state = "Nok"
    /\ ret.fn = "value"
    /\ result = "Pending"
    /\ CharacterReferenceAttempt
    /\ At(Start + 2) \in {B.x, B.X}
    /\ index = Start + 3 + CHARACTER_REFERENCE_HEXADECIMAL_SIZE_MAX
    /\ \A k \in (Start + 3)..index : IsHexDigit(At(k))

\* C13, as stated: the attempt on `&#1234567;` ends in Nok.
C13_Original ==
    (Terminal /\ CharacterReferenceAttempt
        /\ Text = <<B.amp, B.hash>> \o Digits(7) \o <<B.semi>>)
    => state = "Nok"

\* C13, amended: `&#1234567;` holds 7 digits, as many as the decimal cap
\* allows, and ends in Ok with the cursor after its `;`; it is `&#12345678;`,
\* of 8 digits, that ends in Nok, at the eighth digit.
C13_SevenDigitsAccepted ==
    (Terminal /\ CharacterReferenceAttempt /\ result = "Pending")
    => /\ Text = <<B.amp, B.hash>> \o Digits(7) \o <<B.semi>>
          => state = "Ok" /\ index = Len(bytes)
       /\ Text = <<B.amp, B.hash>> \o Digits(8) \o <<B.semi>>
          => state = "Nok" /\ index = Start + 2 + 7

\* `&#1234567;` has ended in Ok.
C13_Witness ==
    /\ CharacterReferenceOk
    /\ CharacterReferenceAttempt
    /\ Text = <<B.amp, B.hash, 49, 50, 51, 52, 53, 54, 55, B.semi>>

\* C16: the events of an accepted character reference are exactly, in order,
\* Enter CharacterReference, the marker token of `&`, for a numeric form the
\* marker token of `#`, for a hexadecimal form the marker token of `x` / `X`,
\* the value token over exactly the bytes of the name or the digits (at least
\* one, none of them `;`), the marker token of `;`, Exit CharacterReference;
\* the cursor is directly after the `;`.
C16_Events ==
    CharacterReferenceOk
    => /\ ByteAt(Start) = B.amp /\ ByteAt(Semi) = B.semi
       /\ ValueStart < Semi
       /\ AttemptEvents = CharacterReferenceEvents(Start, Semi)
       /\ index = Semi + 1

\* A hexadecimal reference accepted, of the twelve events.
C16_Witness ==
    /\ CharacterReferenceOk
    /\ result = "Ok"
    /\ IsHexadecimalForm
    /\ Len(AttemptEvents) = 12
    /\ checkpoint.events_len > 0


----------------------------------------------------------------------------
(* Claims about both recognizers *)

\* The state functions that start an attempt.
StartFns == { "autolink_start", "character_reference_start" }

\* C14: once the engine has handled a Nok of either recognizer, the cursor and
\* the event log are those of before the attempt (the cursor at the
\* checkpoint, the log of the checkpoint's length and holding the earlier
\* events), although every state function after start returns Nok with bytes
\* consumed and events appended, the Enter of the construct still open.
C14_Rollback ==
    /\ result = "Nok"
       => /\ index = checkpoint.index
          /\ Len(events) = checkpoint.events_len
          /\ events = EarlierEvents(checkpoint.index)
    /\ (state = "Nok" /\ result = "Pending" /\ ret.fn \notin StartFns)
       => /\ index > checkpoint.index
          /\ Len(events) > checkpoint.events_len
          /\ OpenAfter(AttemptEvents).stack # <<>>

\* The engine has handled the Nok of an attempt that started after earlier
\* text and had gone past its start function.
C14_Witness ==
    /\ result = "Nok"
    /\ ret.fn \in {"value", "email_value"}
    /\ checkpoint.index > 0
    /\ index = checkpoint.index
    /\ Len(events) = checkpoint.events_len

\* The toggle of the construct whose recognizer runs the attempt is off.
Disabled ==
    \/ (state = "AutolinkStart" \/ ret.fn \in AutolinkFns) /\ ~constructs.autolink
    \/ (state = "CharacterReferenceStart" \/ ret.fn \in CharacterReferenceFns)
          /\ ~constructs.character_reference

\* C15: with its construct disabled, start returns Nok whatever the current
\* byte is, `<` for autolink and `&` for character reference included, and
\* the end of input too, with no byte consumed, no event appended and the
\* scratch record unchanged; no other state function of the recognizer runs.
C15_DisabledStart ==
    Disabled
    => /\ ret.fn \in StartFns \cup {"none"}
       /\ ret.fn \in StartFns => state = "Nok" /\ ret.tag = "Nok"
       /\ index = checkpoint.index
       /\ events = EarlierEvents(checkpoint.index)
       /\ size = 0 /\ marker = 0

\* A disabled start has returned Nok at the byte that opens its construct:
\* character reference at `&`, or autolink at `<`.
C15_Witness ==
    /\ Disabled
    /\ state = "Nok"
    /\ result = "Pending"
    /\ \/ ret.fn = "character_reference_start" /\ current = B.amp
       \/ ret.fn = "autolink_start" /\ current = B.lt

\* C17: an attempt that starts with the scratch record neutral leaves it
\* neutral at every Ok and every Nok, whatever state function of either
\* recognizer returns it and whatever the input: marker = 0 and size = 0.
C17_ScratchNeutral ==
    Terminal => marker = 0 /\ size = 0

\* A Nok returned after size had counted bytes: by email_value inside a
\* label, or by value inside the value of a reference.
C17_Witness ==
    /\ state = "Nok"
    /\ result = "Pending"
    /\ \/ ret.fn = "email_value" /\ index - LabelStart > 1
       \/ ret.fn = "value" /\ index - ValueStart > 1
    /\ marker = 0 /\ size = 0

\* What one step of a state function does to the cursor, by the State it
\* returns.  The steps that leave result as it is are those of the state
\* functions; the other step is the engine's.
StepConsumes ==
    result' = result
    => /\ bytes' = bytes
       /\ index' <= Len(bytes)
       /\ ret'.tag = "Next" => index' = index + 1
       /\ ret'.tag \in {"Retry", "Nok"} => index' = index
       /\ ret'.tag = "Ok"
          => /\ index' = index + 1
             /\ ret'.fn \in AutolinkFns => current = B.gt
             /\ ret'.fn \in CharacterReferenceFns => current = B.semi
       /\ ret'.tag \in {"Next", "Retry", "Nok", "Ok"}

\* C18: in both recognizers a step that returns Next has consumed exactly one
\* byte, a step that returns Retry or Nok none, and a step that returns Ok
\* exactly the closing `>` or `;`; so within an attempt the cursor moves only
\* forwards, one byte at a time, and never past the end of the input.
C18_StepConsumes == [][StepConsumes]_vars

\* numeric has retried into value at the first digit, the cursor where open
\* left it after `&#`.
C18_Witness ==
    /\ ret = [fn |-> "numeric", tag |-> "Retry"]
    /\ state = "CharacterReferenceValue"
    /\ index = Start + 2
    /\ IsDigit(current)

\* C19: whenever value runs the marker is `&`, `x` or `#`, the one of the
\* form the bytes after `&` have selected (`x` for `X` too), so neither
\* unreachable!() of value is executed: value never panics.
C19_MarkerSet ==
    /\ state = "CharacterReferenceValue"
       => /\ marker \in {B.amp, B.x, B.hash}
          /\ marker = IF IsHexadecimalForm THEN B.x
                      ELSE IF IsNumericForm THEN B.hash
                      ELSE B.amp
    /\ ret.fn = "value" => state # "Panic"

\* value runs again in a hexadecimal reference opened by `X`, a digit consumed.
C19_Witness ==
    /\ state = "CharacterReferenceValue"
    /\ ret = [fn |-> "value", tag |-> "Next"]
    /\ At(Start + 2) = B.X
    /\ marker = B.x
    /\ size > 0

\* The last event of the log.
LastEvent == events[Len(events)]

\* C20: whenever value runs, the last event is the Enter of the value token,
\* at the first byte after the markers, and size is the number of bytes
\* consumed since: size is at most the cursor index, the subtraction
\* index - size does not underflow, and the slice [index - size, index) is
\* the bytes from that Enter to the cursor, those of the value token when the
\* cursor is at `;`.
C20_SizeCounts ==
    /\ state = "CharacterReferenceValue"
       => /\ LastEvent = Event("Enter", "CharacterReferenceValue", ValueStart)
          /\ size = index - LastEvent.index
          /\ size <= index
          /\ Slice(index - size, index) = Between(LastEvent.index, index)
    /\ ~(ret.fn = "value" /\ ret.tag = "Panic")

\* value runs at the `;` of a name of three bytes, after earlier text.
C20_Witness ==
    /\ state = "CharacterReferenceValue"
    /\ current = B.semi
    /\ marker = B.amp
    /\ size = 3
    /\ Start > 0
    /\ Slice(index - size, index) = <<B.a, B.m, B.p>>

\* A state function that runs on a Retry does not return Retry itself: it
\* consumes the current byte or ends the attempt.
NoRetryAfterRetry ==
    (result' = result /\ ret.tag = "Retry" /\ ret.fn \in AutolinkFns \cup CharacterReferenceFns)
    => ret'.tag \in {"Next", "Ok", "Nok"}

\* The state functions called so far: at most start's call, one call for each
\* byte consumed and one more call, a Retry or the terminal one, at each
\* cursor position.
StepBound ==
    /\ steps <= 2 * (index - Start) + 1 \/ result = "Nok"
    /\ steps <= 2 * (Len(bytes) - Start) + 1

\* C21: every attempt of either recognizer reaches Ok or Nok and is handled:
\* no Retry is followed by another Retry, so there is no cycle of Retry
\* transitions without a consumed byte, and the number of state functions
\* called is at most twice the length of the input plus one.
C21_Terminates ==
    /\ [][NoRetryAfterRetry]_vars
    /\ []StepBound
    /\ <>(result \in {"Ok", "Nok"})

\* An email autolink accepted after more state-function calls than the input
\* has bytes: email_label has retried into email_value within its labels.
C21_Witness ==
    /\ result = "Ok"
    /\ ret.fn = "email_label"
    /\ steps > Len(bytes) - Start + 2
    /\ AtSign > Start + 1
    /\ Close - AtSign > 3

====
